---- MODULE Spec2Model ----
(***************************************************************************)
(* A model of two operations of plumed2:                                   *)
(*   gridtools/EvaluateFunctionOnGrid.cpp  (construction, the one-time     *)
(*     grid setup in prepareForTasks, and performTask inside a pass over   *)
(*     a task list), and                                                   *)
(*   symfunc/Tetrahedral.cpp  (Tetrahedral::compute).                      *)
(* C++ vectors are indexed from 0, TLA+ sequences from 1: argv[0] of the   *)
(* source is argv[1] here.  Values kept in arg_ends, and the derivative    *)
(* slots, are the numbers the source uses.                                 *)
(***************************************************************************)
EXTENDS Integers, Sequences, FiniteSets, TLC

\* ------------------------------------------------------------- bounds
MaxRank == 2        \* largest rank of the input grid (number of axes)
MaxArgRank == 2     \* largest rank of a coordinate argument
MaxDim == 2         \* largest size of one dimension of a coordinate argument
MaxChain == 2       \* largest number of distinct upstream arguments of a chain
MaxCalls == 3       \* largest number of prepareForTasks calls in one run
MaxCoord == 2       \* largest |component| of a direction given to compute
MaxWeight == 2      \* largest weight given to compute
MaxCompute == 2     \* largest number of compute calls on one MultiValue

\* ------------------------------------------------------------- helpers
RECURSIVE Product(_)
Product(s) == IF s = <<>> THEN 1 ELSE Head(s) * Product(Tail(s))

RECURSIVE Sum(_)
Sum(s) == IF s = <<>> THEN 0 ELSE Head(s) + Sum(Tail(s))

Min(S) == CHOOSE x \in S : \A y \in S : x <= y

\* ------------------------------------------------------------- inputs
\* The type tags getInfoForGridHeader can report.
GridTypes == {"flat", "fibonacci"}

\* The shapes a coordinate argument can have (rank 0 is a scalar).
Shapes == UNION { [1..r -> 1..MaxDim] : r \in 0..MaxArgRank }

\* What the chain detection of requestArguments can leave in
\* distinct_arguments: the derivative slots of each distinct upstream
\* argument (empty when nothing is shared).
DistinctChoices == UNION { [1..n -> 1..2] : n \in 0..MaxChain }

\* The grid headers the upstream operation can report.
Headers == { [nbin |-> 1, spacing |-> 2, pbc |-> FALSE],
             [nbin |-> 2, spacing |-> 1, pbc |-> TRUE] }

VARIABLES
  op,        \* the EvaluateFunctionOnGrid object
  header,    \* the header the upstream grid operation reports at present
  grid,      \* the metadata derived by setupGridObject, nsetup its call count
  pass,      \* the pass over the task list that is running or ran last
  myvals,    \* the per-task MultiValue of the task that ran last
  out,       \* the output value's stored entries, per task
  tet        \* the MultiValue Tetrahedral::compute accumulates into

vars == <<op, header, grid, pass, myvals, out, tet>>

\* ------------------------------------------------------ construction
\* The object as the base-class constructors leave it, before the body of
\* the EvaluateFunctionOnGrid constructor: the grid is the only argument.
BaseObject ==
  [ status |-> "base",
    errmsg |-> [text |-> "", details |-> <<>>],
    gtype |-> "",
    argv |-> <<>>,
    arg_ends |-> <<>>,
    args |-> <<0>>,
    distinct_arguments |-> <<>>,
    values |-> <<>>,
    tasks |-> <<>>,
    nderivatives |-> 0,
    nderivatives_set |-> FALSE,
    noderiv |-> FALSE,
    firststep |-> TRUE ]

\* Action::error: the text given is all the error carries; construction
\* stops there.
error(o, text) ==
  [o EXCEPT !.status = "error", !.errmsg = [text |-> text, details |-> <<>>]]

\* interpretArgumentList: each axis name resolves to one existing value.
interpretArgumentList(argn, found) == [i \in 1..Len(argn) |-> found[i]]

\* Lines 56-57: arg_ends.resize(0); push_back(1); push_back(2+i), i < rank.
\* A variant that pushes 1+i: the first two boundaries coincide.
SetArgEnds_bug(rank) == <<1>> \o [k \in 1..rank |-> k]
SetArgEnds(rank) == <<1>> \o [k \in 1..rank |-> 2 + (k - 1)]

\* Lines 61-66: argument i (i >= 1 in the source) does not match argv[0].
RankMismatch(argv, i) == Len(argv[1]) # Len(argv[i])
ShapeMismatch(argv, i) == \E j \in 1..Len(argv[1]) : argv[1][j] # argv[i][j]

\* Lines 61-66 as a whole: the text of the first error the two nested loops
\* raise, "" when they raise none.  The rank test of argument i comes
\* before its shape loop, and argument i before argument i+1.
\* A variant whose outer loop starts at i = 2: argv[1] is never compared.
CheckArguments_bug(argv) ==
  LET bad == { i \in 3..Len(argv) :
                 RankMismatch(argv, i) \/ ShapeMismatch(argv, i) }
  IN  IF bad = {} THEN ""
      ELSE IF RankMismatch(argv, Min(bad))
           THEN "mismatched ranks for arguments"
           ELSE "mismatched shapes for arguments"
CheckArguments(argv) ==
  LET bad == { i \in 2..Len(argv) :
                 RankMismatch(argv, i) \/ ShapeMismatch(argv, i) }
  IN  IF bad = {} THEN ""
      ELSE IF RankMismatch(argv, Min(bad))
           THEN "mismatched ranks for arguments"
           ELSE "mismatched shapes for arguments"

\* Lines 68-74: req_arg is the grid followed by every argv[i];
\* requestArguments( req_arg, true ) installs it and runs the chain
\* detection, which fills distinct_arguments.
RequestArguments(o, argv, distinct) ==
  [o EXCEPT !.args = <<0>> \o [i \in 1..Len(argv) |-> i],
            !.distinct_arguments = distinct]

\* Lines 77-81: the output value takes the shape of argv[0]; a rank-0 value
\* is created by addValueWithDerivatives, any other by addValue; then
\* setNotPeriodic.
\* A variant with the test on the rank inverted.
NewValue_bug(argv) ==
  LET shape == [i \in 1..Len(argv[1]) |-> argv[1][i]]
  IN  [shape |-> shape, withDerivatives |-> (Len(shape) # 0),
       periodic |-> FALSE]
NewValue(argv) ==
  LET shape == [i \in 1..Len(argv[1]) |-> argv[1][i]]
  IN  [shape |-> shape, withDerivatives |-> (Len(shape) = 0),
       periodic |-> FALSE]

\* createTasksFromArguments: one task per element of the coordinate
\* arguments, numbered from 0.
createTasksFromArguments(argv) == [t \in 1..Product(argv[1]) |-> t - 1]

\* setupActionInChain(1): the derivative slots of the distinct upstream
\* arguments of the chain.
setupActionInChain(o) == Sum(o.distinct_arguments)

\* Lines 85-86.
\* A variant that leaves the grid out of the default count.
GetNumberOfDerivatives_bug(o) ==
  IF Len(o.distinct_arguments) > 0 THEN setupActionInChain(o)
  ELSE Len(o.args) - 1
GetNumberOfDerivatives(o) ==
  IF Len(o.distinct_arguments) > 0 THEN setupActionInChain(o)
  ELSE Len(o.args)

\* Lines 67-86: what the constructor does once every check has passed.
Complete(o, argv, distinct) ==
  LET o1 == RequestArguments(o, argv, distinct)
      o2 == [o1 EXCEPT !.values = Append(o1.values, NewValue(argv))]
      o3 == [o2 EXCEPT !.tasks = createTasksFromArguments(argv)]
  IN  [o3 EXCEPT !.nderivatives = GetNumberOfDerivatives(o3),
                 !.nderivatives_set = TRUE,
                 !.status = "ok"]

\* Lines 49-87: the constructor body.  gtype and rank come from the grid
\* header, found holds the values the axis names resolve to, distinct what
\* the chain detection finds.
\* A variant that runs the checks after the rest of the body.
Constructor_bug(o, gtype, rank, found, distinct) ==
  LET o0 == [o EXCEPT !.gtype = gtype]
      o1 == [o0 EXCEPT !.arg_ends = SetArgEnds(rank)]
      argv == interpretArgumentList([i \in 1..rank |-> i], found)
      o2 == [o1 EXCEPT !.argv = argv]
      o3 == Complete(o2, argv, distinct)
  IN  IF CheckArguments(argv) # "" THEN error(o3, CheckArguments(argv))
      ELSE IF gtype = "fibonacci"
           THEN error(o3, "cannot interpolate on fibonacci sphere")
           ELSE o3
Constructor(o, gtype, rank, found, distinct) ==
  LET o0 == [o EXCEPT !.gtype = gtype]
      o1 == [o0 EXCEPT !.arg_ends = SetArgEnds(rank)]
      argv == interpretArgumentList([i \in 1..rank |-> i], found)
      o2 == [o1 EXCEPT !.argv = argv]
  IN  IF gtype = "fibonacci"
      THEN error(o0, "cannot interpolate on fibonacci sphere")
      ELSE IF CheckArguments(argv) # ""
           THEN error(o2, CheckArguments(argv))
           ELSE Complete(o2, argv, distinct)

\* ------------------------------------------------- one-time grid setup
\* setupGridObject: derives the grid's shape, spacing and periodicity from
\* the header the upstream operation reports now, and clears firststep.
setupGridObject(o, g, h) ==
  << [o EXCEPT !.firststep = FALSE],
     [g EXCEPT !.meta = [shape |-> h.nbin, spacing |-> h.spacing,
                         periodic |-> h.pbc],
               !.nsetup = g.nsetup + 1] >>

\* Lines 89-91: if( firststep ) setupGridObject();
\* A variant without the test of firststep.
prepareForTasks_bug(o, g, h) == setupGridObject(o, g, h)
prepareForTasks(o, g, h) ==
  IF o.firststep THEN setupGridObject(o, g, h) ELSE <<o, g>>

\* ------------------------------------------------------------ one task
\* The MultiValue as it is at task entry: reset, nothing written.  nadd
\* counts the addValue calls made on it.
EmptyMultiValue == [task |-> 0, value |-> 0, der |-> <<>>, nadd |-> 0]

\* MultiValue::addValue on the stream of the operation's output.
addValue(mv, func) ==
  [mv EXCEPT !.value = mv.value + func, !.nadd = mv.nadd + 1]

\* getFunctionValueAndDerivatives: the interpolated value at the point of
\* task `current` and its derivative with respect to each of the nargs
\* coordinates.  It is a fixed function of the point.
getFunctionValueAndDerivatives(current, nargs) ==
  [func |-> current + 1, der |-> [i \in 0..(nargs - 1) |-> current + i + 1]]

\* Lines 93-102.  The loop that would call addDerivative is a comment in
\* the source (line 101), so both branches leave after addValue.
\* A variant that returns before addValue when derivatives are off.
performTask_bug(o, current, mv) ==
  LET nargs == Len(o.args) - 1
      fd == getFunctionValueAndDerivatives(current, nargs)
  IN  IF o.noderiv THEN [mv EXCEPT !.task = current]
      ELSE addValue([mv EXCEPT !.task = current], fd.func)
performTask(o, current, mv) ==
  LET nargs == Len(o.args) - 1
      fd == getFunctionValueAndDerivatives(current, nargs)
      mv1 == addValue([mv EXCEPT !.task = current], fd.func)
  IN  IF o.noderiv THEN mv1 ELSE mv1

\* -------------------------------------------------- Tetrahedral::compute
\* The doubles of compute are modelled by exact fractions n/d in lowest
\* terms, d > 0; the directions are those whose length is a whole number,
\* so that modulo() is exact, and the zero vector (a division by zero) is
\* left out.
RECURSIVE GCD(_, _)
GCD(a, b) == IF b = 0 THEN a ELSE GCD(b, a % b)

Abs(x) == IF x < 0 THEN 0 - x ELSE x

Frac(n, d) ==
  LET g == GCD(Abs(n), d) IN [n |-> n \div g, d |-> d \div g]

RAdd(a, b) == Frac(a.n * b.d + b.n * a.d, a.d * b.d)
RSub(a, b) == Frac(a.n * b.d - b.n * a.d, a.d * b.d)
RScale(k, a) == Frac(k * a.n, a.d)
RNeg(a) == [n |-> 0 - a.n, d |-> a.d]
Zero == Frac(0, 1)

\* std::pow with a whole exponent.
RECURSIVE pow(_, _)
pow(x, e) == IF e = 0 THEN 1 ELSE x * pow(x, e - 1)

Norm2(v) == v[1] * v[1] + v[2] * v[2] + v[3] * v[3]

\* Vector::modulo, on the directions of whole length.
modulo(v) == CHOOSE r \in 0..Norm2(v) : r * r = Norm2(v)

Directions ==
  { v \in [1..3 -> (0 - MaxCoord)..MaxCoord] :
      \E r \in 1..(2 * MaxCoord) : r * r = Norm2(v) }

Weights == 1..MaxWeight

\* The MultiValue compute is given: output 0's value, its derivative with
\* respect to the weight and with respect to the three components.
FreshTet ==
  [ncompute |-> 0, value |-> Zero, wder |-> Zero,
   vder |-> <<Zero, Zero, Zero>>, prev |-> Zero,
   last |-> [val |-> 0, dir |-> <<0, 0, 0>>]]

\* Lines 125-128: the four projections.
\* A variant with the sign of x wrong in the third projection.
Projections_bug(distance) ==
  << distance[1] + distance[2] + distance[3],
     distance[1] - distance[2] - distance[3],
     distance[1] + distance[2] - distance[3],
     (0 - distance[1]) - distance[2] + distance[3] >>
Projections(distance) ==
  << distance[1] + distance[2] + distance[3],
     distance[1] - distance[2] - distance[3],
     (0 - distance[1]) + distance[2] - distance[3],
     (0 - distance[1]) - distance[2] + distance[3] >>

\* Lines 124-155.
compute(val, distance, mv) ==
  LET sp == Projections(distance)
      spc == [k \in 1..4 |-> pow(sp[k], 3)]
      d1 == modulo(distance)
      r3 == pow(d1, 3)
      r5 == pow(d1, 5)
      tmp == RAdd(RAdd(RAdd(Frac(spc[1], r3), Frac(spc[2], r3)),
                       Frac(spc[3], r3)), Frac(spc[4], r3))
      t == [k \in 1..4 |-> Frac(3 * spc[k], r5)]
      tt == [k \in 1..4 |-> Frac(3 * sp[k] * sp[k], r3)]
      \* sgn[c][k]: the sign of tt[k] in component c (lines 147-149).
      sgn == << <<1, 1, 0 - 1, 0 - 1>>,
                <<1, 0 - 1, 1, 0 - 1>>,
                <<1, 0 - 1, 0 - 1, 1>> >>
      term(c, k) == RSub(RScale(sgn[c][k], tt[k]), RScale(distance[c], t[k]))
      myder == [c \in 1..3 |->
                  RAdd(RAdd(RAdd(term(c, 1), term(c, 2)), term(c, 3)),
                       term(c, 4))]
  IN  [mv EXCEPT !.value = RAdd(mv.value, RScale(val, tmp)),
                 !.wder = RAdd(mv.wder, tmp),
                 !.vder = [c \in 1..3 |-> RAdd(mv.vder[c],
                                               RScale(val, myder[c]))]]

\* ------------------------------------------------------------- actions
IdlePass == [state |-> "idle", list |-> <<>>, pos |-> 0, nperform |-> 0,
             nadd |-> 0, pre |-> <<>>]

InitGrid == [meta |-> [shape |-> 0, spacing |-> 0, periodic |-> FALSE],
             nsetup |-> 0, ncalls |-> 0]

Init ==
  /\ op = BaseObject
  /\ header \in Headers
  /\ grid = InitGrid
  /\ pass = IdlePass
  /\ myvals = EmptyMultiValue
  /\ out = <<>>
  /\ tet = FreshTet

\* The constructor runs, on whatever the input file and the upstream
\* operations provide.
Construct ==
  /\ op.status = "base"
  /\ \E gtype \in GridTypes, rank \in 1..MaxRank, nd \in BOOLEAN,
        distinct \in DistinctChoices :
       \E found \in [1..rank -> Shapes] :
         /\ op' = Constructor([op EXCEPT !.noderiv = nd], gtype, rank,
                              found, distinct)
         /\ out' = [t \in 0..(Len(op'.tasks) - 1) |->
                      [value |-> 0, der |-> <<>>]]
  /\ UNCHANGED <<header, grid, pass, myvals, tet>>

\* The upstream operation finishes or redoes its own setup.
ChangeHeader ==
  /\ header' \in Headers \ {header}
  /\ UNCHANGED <<op, grid, pass, myvals, out, tet>>

\* A call of the pass-preparation hook outside a pass.
PrepareForTasks ==
  /\ op.status = "ok"
  /\ pass.state # "running"
  /\ grid.ncalls < MaxCalls
  /\ LET r == prepareForTasks(op, grid, header)
     IN  /\ op' = r[1]
         /\ grid' = [r[2] EXCEPT !.ncalls = grid.ncalls + 1]
  /\ UNCHANGED <<header, pass, myvals, out, tet>>

\* A pass starts over the first k tasks of the list (the active ones): the
\* hook runs, then the tasks one by one.
StartPass ==
  /\ op.status = "ok"
  /\ pass.state # "running"
  /\ grid.ncalls < MaxCalls
  /\ \E k \in 0..Len(op.tasks) :
       pass' = [state |-> "running", list |-> SubSeq(op.tasks, 1, k),
                pos |-> 0, nperform |-> 0, nadd |-> 0, pre |-> out]
  /\ LET r == prepareForTasks(op, grid, header)
     IN  /\ op' = r[1]
         /\ grid' = [r[2] EXCEPT !.ncalls = grid.ncalls + 1]
  /\ UNCHANGED <<header, myvals, out, tet>>

\* The next task of the pass: performTask on a reset MultiValue, whose
\* content then goes to the task's entry of the output value.
RunTask ==
  /\ pass.state = "running"
  /\ pass.pos < Len(pass.list)
  /\ LET current == pass.list[pass.pos + 1]
         mv == performTask(op, current, EmptyMultiValue)
     IN  /\ myvals' = mv
         /\ out' = [out EXCEPT ![current] =
                      [value |-> mv.value, der |-> mv.der]]
         /\ pass' = [pass EXCEPT !.pos = pass.pos + 1,
                                 !.nperform = pass.nperform + 1,
                                 !.nadd = pass.nadd + mv.nadd]
  /\ UNCHANGED <<op, header, grid, tet>>

\* The pass ends when the list is exhausted.
FinishPass ==
  /\ pass.state = "running"
  /\ pass.pos = Len(pass.list)
  /\ pass' = [pass EXCEPT !.state = "done"]
  /\ UNCHANGED <<op, header, grid, myvals, out, tet>>

Next ==
  \/ Construct
  \/ ChangeHeader
  \/ PrepareForTasks
  \/ StartPass
  \/ RunTask
  \/ FinishPass

Spec == Init /\ [][Next]_vars

\* SymmetryFunctionBase calls compute once for each neighbour of the
\* central atom, on the same MultiValue.
Compute ==
  /\ tet.ncompute < MaxCompute
  /\ \E val \in Weights, dir \in Directions :
       tet' = [compute(val, dir, tet) EXCEPT
                 !.ncompute = tet.ncompute + 1,
                 !.prev = tet.value,
                 !.last = [val |-> val, dir |-> dir]]
  /\ UNCHANGED <<op, header, grid, pass, myvals, out>>

NextTet == Compute

SpecTet == Init /\ [][NextTet]_vars

\* ----------------------------------------------------------- the claims
\* Two resolved coordinate arguments differ, in rank or in some dimension.
Mismatched(argv) == \E a, b \in 1..Len(argv) : argv[a] # argv[b]

NothingRetained ==
  /\ op.args = <<0>>
  /\ op.distinct_arguments = <<>>
  /\ op.values = <<>>
  /\ op.tasks = <<>>
  /\ ~op.nderivatives_set

NoTaskRan == pass.state = "idle" /\ pass.nperform = 0 /\ myvals.nadd = 0

\* C1: once the constructor has resolved coordinate arguments of which two
\* differ in rank or in the size of a dimension, construction has ended in
\* one of the two mismatch errors, raised before requestArguments, the
\* creation of the value and createTasksFromArguments, and no task runs.
C1Theorem ==
  (op.argv # <<>> /\ Mismatched(op.argv)) =>
     /\ op.status = "error"
     /\ op.errmsg.text \in {"mismatched ranks for arguments",
                            "mismatched shapes for arguments"}
     /\ op.args = <<0>> /\ op.values = <<>> /\ op.tasks = <<>>
     /\ NoTaskRan

\* A construction that failed on two arguments of one rank that agree in
\* their first dimension and differ in the second.
C1Witness ==
  /\ op.status = "error"
  /\ op.errmsg.text = "mismatched shapes for arguments"
  /\ \E i \in 2..Len(op.argv) :
       /\ Len(op.argv[i]) = Len(op.argv[1])
       /\ Len(op.argv[1]) >= 2
       /\ op.argv[i][1] = op.argv[1][1]
       /\ op.argv[i][2] # op.argv[1][2]

\* C2 (as claimed): after performTask has run with derivatives requested,
\* the MultiValue holds the derivative of the output with respect to each
\* of the nargs coordinate arguments, at that argument's slot.
C2Original ==
  (pass.nperform > 0 /\ ~op.noderiv) =>
     LET nargs == Len(op.args) - 1
         fd == getFunctionValueAndDerivatives(myvals.task, nargs)
     IN  \A i \in 0..(nargs - 1) :
           i \in DOMAIN myvals.der /\ myvals.der[i] = fd.der[i]

\* C3: firststep is true until prepareForTasks is first called; from that
\* call on it is false and setupGridObject has run exactly once; and a
\* later call leaves the derived metadata as the first call made it.
C3Theorem ==
  /\ [](/\ grid.ncalls = 0 => (op.firststep /\ grid.nsetup = 0)
        /\ grid.ncalls >= 1 => (~op.firststep /\ grid.nsetup = 1))
  /\ [][grid.ncalls >= 1 => grid'.meta = grid.meta]_vars

\* The hook has been called at least twice, and the upstream header is no
\* longer the one the metadata was derived from.
C3Witness ==
  /\ grid.ncalls >= 2
  /\ grid.meta.shape # header.nbin

\* C4 (as claimed): the error for mismatched shapes carries the index of a
\* dimension at which argv[0] and another argument differ, and the two
\* arguments.
C4Original ==
  (op.status = "error"
     /\ op.errmsg.text = "mismatched shapes for arguments") =>
     \E i \in 2..Len(op.argv) : \E j \in 1..Len(op.argv[1]) :
        /\ op.argv[1][j] # op.argv[i][j]
        /\ op.errmsg.details = <<j - 1, 0, i - 1>>

\* C5 (as claimed): compute with weight 1 and direction (1,0,0) adds 2 to
\* output 0.
C5Original ==
  (tet.ncompute >= 1 /\ tet.last = [val |-> 1, dir |-> <<1, 0, 0>>]) =>
     tet.value = RAdd(tet.prev, Frac(2, 1))

\* C5 (amended): compute adds val * ((x+y+z)^3 + (x-y-z)^3 + (-x+y-z)^3 +
\* (-x-y+z)^3) / r^3 to output 0, which for weight 1 and direction (1,0,0)
\* is 0: the output is left as it was.
C5Theorem ==
  tet.ncompute >= 1 =>
     LET x == tet.last.dir[1]
         y == tet.last.dir[2]
         z == tet.last.dir[3]
         cubes == pow(x + y + z, 3) + pow(x - y - z, 3)
                    + pow(y - x - z, 3) + pow(z - x - y, 3)
     IN  /\ tet.value = RAdd(tet.prev,
                             Frac(tet.last.val * cubes, pow(modulo(tet.last.dir), 3)))
         /\ tet.last = [val |-> 1, dir |-> <<1, 0, 0>>] => tet.value = tet.prev

\* compute ran with weight 1 and direction (1,0,0) on a MultiValue whose
\* output 0 was not zero.
C5Witness ==
  /\ tet.ncompute >= 2
  /\ tet.last = [val |-> 1, dir |-> <<1, 0, 0>>]
  /\ tet.prev # Zero

\* C6: when the constructor has raised an error, for the grid type or for
\* the arguments, no argument has been requested beyond the grid, no value
\* added, no task created, nderivatives not set, and no task runs.
C6Theorem == op.status = "error" => (NothingRetained /\ NoTaskRan)

\* A construction that failed on the grid type.
C6Witness ==
  /\ op.status = "error"
  /\ op.gtype = "fibonacci"
  /\ op.errmsg.text = "cannot interpolate on fibonacci sphere"

\* C7: in a pass, every task performed makes one addValue write; a finished
\* pass has performed each task of its list once; and a finished pass over
\* an empty list performed none and left every output entry as it was.
C7Theorem ==
  /\ pass.state # "idle" =>
       (pass.nadd = pass.nperform /\ pass.nperform = pass.pos)
  /\ pass.state = "done" => pass.nadd = Len(pass.list)
  /\ (pass.state = "done" /\ Len(pass.list) = 0) =>
       (pass.nperform = 0 /\ out = pass.pre)

\* A finished pass over an empty list, after an earlier pass wrote outputs.
C7Witness ==
  /\ pass.state = "done"
  /\ Len(pass.list) = 0
  /\ \E t \in DOMAIN out : out[t].value # 0

\* C8: after a successful construction arg_ends is strictly increasing,
\* starts at 1 and ends at the number of arguments, which is 1 plus the
\* number of coordinate arguments.
C8Theorem ==
  op.status = "ok" =>
     /\ \A k \in 1..(Len(op.arg_ends) - 1) : op.arg_ends[k] < op.arg_ends[k + 1]
     /\ op.arg_ends[1] = 1
     /\ op.arg_ends[Len(op.arg_ends)] = Len(op.args)
     /\ Len(op.args) = 1 + Len(op.argv)

\* A successful construction on a grid of two axes or more.
C8Witness == op.status = "ok" /\ Len(op.argv) >= 2 /\ Len(op.arg_ends) >= 3

\* C9: after a successful construction nderivatives is the number of
\* arguments, the grid included, when distinct_arguments is empty, and the
\* count setupActionInChain returns otherwise.
C9Theorem ==
  op.status = "ok" =>
     /\ op.nderivatives_set
     /\ op.distinct_arguments = <<>> => op.nderivatives = Len(op.args)
     /\ op.distinct_arguments # <<>> =>
          op.nderivatives = setupActionInChain(op)

\* A successful construction without shared upstream arguments.
C9Witness ==
  /\ op.status = "ok"
  /\ op.distinct_arguments = <<>>
  /\ op.nderivatives = 1 + Len(op.argv)

\* C10: after a successful construction there is one output value, not
\* periodic, of the shape of argv[0], with inline derivatives exactly when
\* its rank is zero.
C10Theorem ==
  op.status = "ok" =>
     /\ Len(op.values) = 1
     /\ ~op.values[1].periodic
     /\ op.values[1].shape = op.argv[1]
     /\ op.values[1].withDerivatives <=> (Len(op.argv[1]) = 0)

\* A successful construction on scalar coordinate arguments.
C10Witness ==
  /\ op.status = "ok"
  /\ Len(op.values) = 1
  /\ op.values[1].shape = <<>>
  /\ op.values[1].withDerivatives

====
